---- MODULE Spec2Model ----
(***************************************************************************)
(* Model of the TextScanTranslator pipeline.                                *)
(*   src/app.py                         the extended variant (OCR tab,     *)
(*                                      guarded stages, Firestore history) *)
(*   src/attached_assets/translator.py  the base variant (no guards, fixed *)
(*                                      audio file name, no store)         *)
(* Texts are sequences of characters:                                       *)
(*   "a", "b", "c" word characters, "." a sentence end, " " whitespace.     *)
(* A sentinel message is a one-element text whose element is the message.  *)
(***************************************************************************)
EXTENDS Integers, Sequences, FiniteSets, TLC

VARIABLES
    program,     \* which script the server runs: "app" or "translator"
    ses,         \* per browser session: the script run's locals and what it rendered
    files,       \* the server's file system: path -> content
    nextTmp,     \* names handed out by tempfile so far
    store,       \* Firestore collection 'translations': document id -> data
    fbCache,     \* st.cache_resource entry of initialize_firebase
    fbApps,      \* firebase_admin._apps is non-empty
    fbLog,       \* what the calls of initialize_firebase did so far
    runs,        \* pipeline runs started so far (each session makes one)
    view,        \* the last rendering of the History tab
    sm           \* the summarizer harness of SpecSumm

vars == <<program, ses, files, nextTmp, store, fbCache, fbApps, fbLog, runs, view, sm>>

\* ------------------------------------------------------------------ bounds
MaxLen == 5          \* longest text summarised in SpecSumm
MaxK == 3            \* largest sentences_count tried in SpecSumm
MaxRank == 1         \* LSA ratings are drawn from 0..MaxRank

Sessions == {"u1", "u2"}

\* "a" is a word character of the source text, "b" and "c" of a translation
WordChars == {"a", "b", "c"}
Chars == {"a", ".", " "}

\* ------------------------------------------------------------- text helpers
\* str.strip() yields the empty string: only whitespace
IsBlank(t) == \A i \in 1..Len(t) : t[i] = " "

RECURSIVE LStrip(_)
LStrip(t) == IF t # <<>> /\ Head(t) = " " THEN LStrip(Tail(t)) ELSE t

RECURSIVE RStrip(_)
RStrip(t) == IF t # <<>> /\ t[Len(t)] = " " THEN RStrip(SubSeq(t, 1, Len(t) - 1)) ELSE t

Strip(t) == RStrip(LStrip(t))

\* " ".join(parts)
RECURSIVE JoinSpace(_)
JoinSpace(parts) ==
    IF parts = <<>> THEN <<>>
    ELSE IF Len(parts) = 1 THEN parts[1]
    ELSE parts[1] \o <<" ">> \o JoinSpace(Tail(parts))

\* the sentinels of src/app.py
NoTextToSummarize == <<"No text to summarize.">>
CouldntGenerate == <<"Couldn't generate summary. Text might be too short or complex.">>
SummarizationError == <<"Error occurred during summarization.">>
NoTextDetected == <<"No text detected in the image.">>
ExtractionError == <<"Error occurred during text extraction.">>

\* ------------------------------------------------- summarizer (sumy library)
OneSentence(cur) == IF Strip(cur) = <<>> THEN <<>> ELSE <<Strip(cur)>>

\* Tokenizer("english"): a sentence ends after a "." that is followed by
\* whitespace; sentences are stripped and empty ones dropped.
RECURSIVE Tok(_, _, _)
Tok(t, i, cur) ==
    IF i > Len(t) THEN OneSentence(cur)
    ELSE IF t[i] = "." /\ i < Len(t) /\ t[i + 1] = " "
         THEN OneSentence(Append(cur, t[i])) \o Tok(t, i + 1, <<>>)
         ELSE Tok(t, i + 1, Append(cur, t[i]))

\* PlaintextParser.from_string(text, tokenizer).document.sentences
Sentences(t) == Tok(t, 1, <<>>)

\* the document has at least one word for the term dictionary
HasWords(t) == \E i \in 1..Len(t) : t[i] \in WordChars

\* the sentences the summarizer can select from: none without a dictionary
Extractable(t) == IF HasWords(t) THEN Sentences(t) ELSE <<>>

\* position of sentence i after sorted(key=rating, reverse=True), which is
\* stable: equal ratings keep document order
RankPos(r, n, i) ==
    Cardinality({j \in 1..n : r[j] > r[i] \/ (r[j] = r[i] /\ j < i)})

RECURSIVE PickInOrder(_, _, _)
PickInOrder(sents, sel, i) ==
    IF i > Len(sents) THEN <<>>
    ELSE (IF i \in sel THEN <<sents[i]>> ELSE <<>>) \o PickInOrder(sents, sel, i + 1)

\* LsaSummarizer()(document, k) with ratings r: the k best rated sentences,
\* re-sorted by their order in the document
LsaSummarizer(t, k, r) ==
    LET sents == Extractable(t)
        n == Len(sents)
        sel == {i \in 1..n : RankPos(r, n, i) < k}
    IN  PickInOrder(sents, sel, 1)

Ratings(t) == [1..Len(Extractable(t)) -> 0..MaxRank]

\* mutant of summarize_text: the sentences are joined without a separator
summarize_text_joined_tight(text, k, r, fails) ==
    IF IsBlank(text) THEN NoTextToSummarize
    ELSE IF fails THEN SummarizationError
    ELSE LET summary == LsaSummarizer(text, k, r)
             RECURSIVE Cat(_)
             Cat(parts) == IF parts = <<>> THEN <<>> ELSE parts[1] \o Cat(Tail(parts))
         IN  IF summary = <<>> THEN CouldntGenerate
             ELSE Cat(summary)

\* ----------------------------------------------------------- summarize_text
\* fails: the library raised (caught by the function's own handler)
summarize_text(text, k, r, fails) ==
    IF IsBlank(text) THEN NoTextToSummarize
    ELSE IF fails THEN SummarizationError
    ELSE LET summary == LsaSummarizer(text, k, r)
         IN  IF summary = <<>> THEN CouldntGenerate
             ELSE JoinSpace(summary)

\* ------------------------------------------------------------ configuration
\* language_map of main(): display name -> code
language_map ==
    [n \in {"Bengali", "Gujarati", "Hindi", "Malayalam", "Marathi",
            "Punjabi", "Tamil", "Telugu", "Urdu"} |->
        CASE n = "Bengali" -> "bn" [] n = "Gujarati" -> "gu" [] n = "Hindi" -> "hi"
          [] n = "Malayalam" -> "ml" [] n = "Marathi" -> "mr" [] n = "Punjabi" -> "pa"
          [] n = "Tamil" -> "ta" [] n = "Telugu" -> "te" [] n = "Urdu" -> "ur"]

\* the languages the modelled users select, and the uploads they make
Langs == {"Hindi", "Telugu"}
InputTexts == {<<" ">>, <<"a", ".", " ", " ", "a">>}

\* sentences_count=3, the default of summarize_text
SentencesCount == 3

\* ------------------------------------------------------- external providers
\* GoogleTranslator(source='auto', target=code).translate(text) when it
\* returns: the stripped text with every word rendered in the target language
Translate(text, code) ==
    LET t == Strip(text)
    IN  [i \in 1..Len(t) |->
            IF t[i] \in WordChars THEN (IF code = "te" THEN "c" ELSE "b") ELSE t[i]]

\* the MP3 stream gTTS produces for a text in a language
Synth(text, code) == <<"mp3", text, code>>
EmptyFile == <<"empty">>
NoAudio == <<>>

\* audio_path values: None, a tempfile name, the fixed name of translator.py
None == <<>>
TmpPath(n) == <<"tmp", n>>
FixedPath == <<"translated_speech.mp3">>

\* ------------------------------------------------------------ session state
\* raw: what pytesseract.image_to_string returned in this run, if it was called
NoOcr == <<"not called">>
OcrRaised == <<"raised">>

IdleSession ==
    [pc |-> "idle", source_is_image |-> FALSE, text |-> <<>>,
     selected_language |-> "None", translated_text |-> <<>>, summary |-> <<>>,
     audio_path |-> None, audio_bytes |-> NoAudio, shown |-> {}, msgs |-> {},
     stages |-> <<>>, created |-> {}, raw |-> NoOcr, removed |-> "not tried"]

NoView == [status |-> "none", filter_type |-> "All", filter_language |-> "All",
           snapshot |-> {}, rows |-> <<>>]

NoHarness == [pc |-> "off"]

\* no call of initialize_firebase yet: creds counts the times the credentials
\* were read, inits the calls of firebase_admin.initialize_app that returned,
\* results holds every value a call returned
NoLog == [creds |-> 0, inits |-> 0, results |-> {}]

Init ==
    /\ program \in {"app", "translator"}
    /\ ses = [s \in Sessions |-> IdleSession]
    /\ files = <<>>
    /\ nextTmp = 0
    /\ store = <<>>
    /\ fbCache = "unset"
    /\ fbApps = FALSE
    /\ fbLog = NoLog
    /\ runs = 0
    /\ view = NoView
    /\ sm = NoHarness

Put(f, k, v) == [x \in DOMAIN f \cup {k} |-> IF x = k THEN v ELSE f[x]]
Drop(f, k) == [x \in DOMAIN f \ {k} |-> f[x]]

\* ------------------------------------------------------------ text_to_speech
\* src/app.py text_to_speech(text, lang_code): the outcome of the call as
\* [path, files, nextTmp, msgs]; tmpOk: NamedTemporaryFile succeeded,
\* ttsOk: gTTS(...).save succeeded
text_to_speech(text, lang_code, fs, n, tmpOk, ttsOk) ==
    IF IsBlank(text)
    THEN [path |-> None, files |-> fs, nextTmp |-> n, made |-> {}, msgs |-> {}]
    ELSE IF ~tmpOk
    THEN [path |-> None, files |-> fs, nextTmp |-> n, made |-> {},
          msgs |-> {"Text-to-speech error"}]
    ELSE LET audio_path == TmpPath(n + 1)
         IN  IF ttsOk
             THEN [path |-> audio_path,
                   files |-> Put(fs, audio_path, Synth(text, lang_code)),
                   nextTmp |-> n + 1, made |-> {audio_path}, msgs |-> {}]
             ELSE [path |-> None,
                   files |-> Put(fs, audio_path, EmptyFile),
                   nextTmp |-> n + 1, made |-> {audio_path},
                   msgs |-> {"Text-to-speech error"}]

\* mutant of extract_text_from_image: the blank check is missing
extract_text_unchecked(raw, ocrOk) ==
    IF ~ocrOk THEN ExtractionError ELSE raw

\* --------------------------------------------------- extract_text_from_image
\* ocrOk: pytesseract.image_to_string returned raw
extract_text_from_image(raw, ocrOk) ==
    IF ~ocrOk THEN ExtractionError
    ELSE IF IsBlank(raw) THEN NoTextDetected
    ELSE raw

\* ------------------------------------------------------------------ clock
MaxSec == 1          \* clock readings: seconds 0..MaxSec
MaxMicro == 1        \* and microseconds 0..MaxMicro
Times == [sec : 0..MaxSec, micro : 0..MaxMicro]

\* datetime.isoformat(): fixed-width fields, the fraction left out when the
\* microsecond is 0. One element per field.
IsoFormat(t) == IF t.micro = 0 THEN <<t.sec>> ELSE <<t.sec, t.micro>>

\* --------------------------------------------------------------- persistence
\* mutant of initialize_firebase: the st.cache_resource decorator is missing,
\* the body runs at every call
initialize_firebase_uncached(cache, apps, credOk, clientOk) ==
    LET read == IF apps THEN 0 ELSE 1
    IN  IF ~apps /\ ~credOk
        THEN [db |-> "null", cache |-> "null", apps |-> apps, creds |-> read,
              inits |-> 0, msgs |-> {"Firebase initialization error"}]
        ELSE IF ~clientOk
        THEN [db |-> "null", cache |-> "null", apps |-> TRUE, creds |-> read,
              inits |-> read, msgs |-> {"Firebase initialization error"}]
        ELSE [db |-> "client", cache |-> "client", apps |-> TRUE, creds |-> read,
              inits |-> read, msgs |-> {}]

\* initialize_firebase() under st.cache_resource:
\* [db, cache, apps, creds, inits, msgs], creds and inits counting the
\* credential reads and the app initialisations of this call;
\* credOk: the credentials load and the app initialises, clientOk:
\* firestore.client() returns
initialize_firebase(cache, apps, credOk, clientOk) ==
    LET read == IF apps THEN 0 ELSE 1
    IN  IF cache # "unset"
        THEN [db |-> cache, cache |-> cache, apps |-> apps, creds |-> 0,
              inits |-> 0, msgs |-> {}]
        ELSE IF ~apps /\ ~credOk
        THEN [db |-> "null", cache |-> "null", apps |-> apps, creds |-> read,
              inits |-> 0, msgs |-> {"Firebase initialization error"}]
        ELSE IF ~clientOk
        THEN [db |-> "null", cache |-> "null", apps |-> TRUE, creds |-> read,
              inits |-> read, msgs |-> {"Firebase initialization error"}]
        ELSE [db |-> "client", cache |-> "client", apps |-> TRUE, creds |-> read,
              inits |-> read, msgs |-> {}]

\* the log after a call of initialize_firebase that returned fb
Logged(log, fb) ==
    [creds |-> log.creds + fb.creds, inits |-> log.inits + fb.inits,
     results |-> log.results \cup {fb.db}]

\* the outcomes of the provider calls inside initialize_firebase: none is
\* made once the result is cached
InitOutcomes(cache) == IF cache = "unset" THEN BOOLEAN ELSE {TRUE}

\* mutant of uuid4: every document gets the same identifier
uuid4_fixed(used) == 1

\* str(uuid.uuid4()): an identifier no document has
uuid4(used) == Cardinality(used) + 1

\* save_to_firebase(data): [saved, store, cache, apps, fb, msgs]; now: the clock
\* reading, setOk: document(doc_id).set(data) returned
save_to_firebase(data, st, cache, apps, credOk, clientOk, now, setOk) ==
    LET fb == initialize_firebase(cache, apps, credOk, clientOk)
    IN  IF fb.db # "client"
        THEN [saved |-> FALSE, store |-> st, cache |-> fb.cache, apps |-> fb.apps,
              fb |-> fb,
              msgs |-> fb.msgs \cup
                  {"Firebase connection not available. Data will not be saved."}]
        ELSE LET doc_id == uuid4(DOMAIN st)
                 stamped == [data EXCEPT !.timestamp = IsoFormat(now)]
             IN  IF setOk
                 THEN [saved |-> TRUE, store |-> Put(st, doc_id, stamped),
                       cache |-> fb.cache, apps |-> fb.apps, fb |-> fb,
                       msgs |-> fb.msgs]
                 ELSE [saved |-> FALSE, store |-> st, cache |-> fb.cache,
                       apps |-> fb.apps, fb |-> fb,
                       msgs |-> fb.msgs \cup {"Firebase save error"}]

\* mutant of firebase_data: has_audio does not look at audio_path
firebase_data_always_audio(r) ==
    [original_text |-> r.text,
     source_type |-> IF r.source_is_image THEN "image" ELSE "text_file",
     target_language |-> r.selected_language,
     target_language_code |-> language_map[r.selected_language],
     translated_text |-> r.translated_text,
     summary |-> r.summary,
     has_audio |-> TRUE,
     timestamp |-> <<>>]

\* firebase_data of process_text; timestamp is added by save_to_firebase
firebase_data(r) ==
    [original_text |-> r.text,
     source_type |-> IF r.source_is_image THEN "image" ELSE "text_file",
     target_language |-> r.selected_language,
     target_language_code |-> language_map[r.selected_language],
     translated_text |-> r.translated_text,
     summary |-> r.summary,
     has_audio |-> r.audio_path # None,
     timestamp |-> <<>>]

\* ------------------------------------------------------ src/app.py: actions
\* tab1: a text file is uploaded and decoded; process_text renders its widgets.
\* The rerun rebuilds the page, so the previous History rendering is gone.
app_UploadText(s) ==
    /\ program = "app" /\ ses[s].pc = "idle"
    /\ runs' = runs + 1
    /\ \E decodeOk \in BOOLEAN, file_contents \in InputTexts :
        ses' = [ses EXCEPT ![s] =
            IF decodeOk
            THEN [@ EXCEPT !.pc = "ready", !.text = file_contents,
                           !.source_is_image = FALSE, !.shown = {"original"}]
            ELSE [@ EXCEPT !.pc = "done", !.msgs = {"Error processing text file"}]]
    /\ view' = NoView
    /\ UNCHANGED <<program, files, nextTmp, store, fbCache, fbApps, fbLog, sm>>

\* tab2: an image is uploaded, opened and put through OCR
app_UploadImage(s) ==
    /\ program = "app" /\ ses[s].pc = "idle"
    /\ runs' = runs + 1
    /\ \E openOk \in BOOLEAN, ocrOk \in BOOLEAN, raw \in InputTexts :
        LET extracted_text == extract_text_from_image(raw, ocrOk)
        IN  ses' = [ses EXCEPT ![s] =
            IF ~openOk
            THEN [@ EXCEPT !.pc = "done", !.msgs = {"Error processing image"},
                           !.source_is_image = TRUE]
            ELSE IF extracted_text # <<>> /\ extracted_text # NoTextDetected
                    /\ extracted_text # ExtractionError
            THEN [@ EXCEPT !.pc = "ready", !.text = extracted_text,
                           !.source_is_image = TRUE, !.shown = {"image", "extracted"},
                           !.stages = <<"ocr">>, !.raw = raw]
            ELSE [@ EXCEPT !.pc = "done", !.source_is_image = TRUE,
                           !.shown = {"image"}, !.stages = <<"ocr">>,
                           !.text = extracted_text,
                           !.raw = IF ocrOk THEN raw ELSE OcrRaised,
                           !.msgs = {extracted_text[1]} \cup
                               (IF ocrOk THEN {} ELSE {"OCR error"})]]
    /\ view' = NoView
    /\ UNCHANGED <<program, files, nextTmp, store, fbCache, fbApps, fbLog, sm>>

\* mutant of app_Translate: a failed translation is tried again
app_Translate_retrying(s) ==
    /\ program = "app" /\ ses[s].pc = "ready"
    /\ \E selected_language \in Langs, translateOk \in BOOLEAN, sumFails \in BOOLEAN :
        LET lang_code == language_map[selected_language]
            translated_text == Translate(ses[s].text, lang_code)
        IN  \E r \in Ratings(translated_text) :
            LET summary == summarize_text(translated_text, SentencesCount, r, sumFails)
            IN  ses' = [ses EXCEPT ![s] =
                IF ~translateOk
                THEN [@ EXCEPT !.pc = "ready", !.selected_language = selected_language,
                               !.stages = Append(@, "translate")]
                ELSE [@ EXCEPT !.pc = "tts", !.selected_language = selected_language,
                               !.translated_text = translated_text,
                               !.summary = summary,
                               !.stages = Append(@, "translate") \o <<"summarize">>,
                               !.shown = @ \cup {"translated", "summary"},
                               !.msgs = IF summary = SummarizationError
                                        THEN {"Summarization error"} ELSE {}]]
    /\ UNCHANGED <<program, files, nextTmp, store, fbCache, fbApps, fbLog, runs, view, sm>>

\* process_text, the Translate button: translate, then summarize_text
app_Translate(s) ==
    /\ program = "app" /\ ses[s].pc = "ready"
    /\ \E selected_language \in Langs, translateOk \in BOOLEAN, sumFails \in BOOLEAN :
        LET lang_code == language_map[selected_language]
            translated_text == Translate(ses[s].text, lang_code)
        IN  \E r \in Ratings(translated_text) :
            LET summary == summarize_text(translated_text, SentencesCount, r, sumFails)
            IN  ses' = [ses EXCEPT ![s] =
                IF ~translateOk
                THEN [@ EXCEPT !.pc = "done", !.selected_language = selected_language,
                               !.stages = Append(@, "translate"),
                               !.msgs = {"Error during processing"}]
                ELSE [@ EXCEPT !.pc = "tts", !.selected_language = selected_language,
                               !.translated_text = translated_text,
                               !.summary = summary,
                               !.stages = Append(@, "translate") \o <<"summarize">>,
                               !.shown = @ \cup {"translated", "summary"},
                               !.msgs = IF summary = SummarizationError
                                        THEN {"Summarization error"} ELSE {}]]
    /\ UNCHANGED <<program, files, nextTmp, store, fbCache, fbApps, fbLog, runs, view, sm>>

\* process_text: audio_path = text_to_speech(summary, lang_code)
app_Speech(s) ==
    /\ program = "app" /\ ses[s].pc = "tts"
    /\ \E tmpOk \in BOOLEAN, ttsOk \in BOOLEAN :
        LET r == ses[s]
            out == text_to_speech(r.summary, language_map[r.selected_language],
                                  files, nextTmp, tmpOk, ttsOk)
        IN  /\ files' = out.files
            /\ nextTmp' = out.nextTmp
            /\ ses' = [ses EXCEPT ![s] =
                 [@ EXCEPT !.pc = IF out.path # None THEN "play" ELSE "save",
                           !.audio_path = out.path,
                           !.created = out.made,
                           !.stages = Append(@, "tts"),
                           !.msgs = @ \cup out.msgs]]
    /\ UNCHANGED <<program, store, fbCache, fbApps, fbLog, runs, view, sm>>

\* process_text, if audio_path: read the file back, play it, remove it
app_Playback(s) ==
    /\ program = "app" /\ ses[s].pc = "play"
    /\ \E openOk \in BOOLEAN, removeOk \in BOOLEAN :
        LET r == ses[s]
        IN  IF openOk /\ r.audio_path \in DOMAIN files
            THEN /\ files' = IF removeOk THEN Drop(files, r.audio_path) ELSE files
                 /\ ses' = [ses EXCEPT ![s] =
                      [@ EXCEPT !.pc = "save", !.audio_bytes = files[r.audio_path],
                                !.removed = IF removeOk THEN "removed" ELSE "failed",
                                !.stages = Append(@, "playback"),
                                !.shown = @ \cup {"audio"}]]
            ELSE /\ files' = files
                 /\ ses' = [ses EXCEPT ![s] =
                      [@ EXCEPT !.pc = "done", !.stages = Append(@, "playback"),
                                !.msgs = @ \cup {"Error during processing"}]]
    /\ UNCHANGED <<program, nextTmp, store, fbCache, fbApps, fbLog, runs, view, sm>>

\* mutant of Downloads: a failed save ends the run like any other exception
Downloads_blocked(r, out) ==
    IF out.saved
    THEN [r EXCEPT !.pc = "done",
                   !.stages = Append(@, "save") \o <<"download">>,
                   !.msgs = @ \cup out.msgs \cup {"Data saved to Firebase successfully!"},
                   !.shown = @ \cup {"dl_translated", "dl_summary"} \cup
                       (IF r.source_is_image THEN {"dl_extracted"} ELSE {})]
    ELSE [r EXCEPT !.pc = "done", !.stages = Append(@, "save"),
                   !.msgs = @ \cup out.msgs \cup {"Error during processing"}]

\* process_text after save_to_firebase returned out: the success note and the
\* download buttons
Downloads(r, out) ==
    [r EXCEPT !.pc = "done",
              !.stages = Append(@, "save") \o <<"download">>,
              !.msgs = @ \cup out.msgs \cup
                  (IF out.saved THEN {"Data saved to Firebase successfully!"} ELSE {}),
              !.shown = @ \cup {"dl_translated", "dl_summary"} \cup
                  (IF r.source_is_image THEN {"dl_extracted"} ELSE {})]

\* process_text: save_to_firebase(firebase_data), then the download buttons
app_Save(s) ==
    /\ program = "app" /\ ses[s].pc = "save"
    /\ \E credOk \in InitOutcomes(fbCache), clientOk \in InitOutcomes(fbCache),
          setOk \in BOOLEAN, now \in Times :
        LET r == ses[s]
            out == save_to_firebase(firebase_data(r), store, fbCache, fbApps,
                                    credOk, clientOk, now, setOk)
        IN  /\ store' = out.store
            /\ fbCache' = out.cache
            /\ fbApps' = out.apps
            /\ fbLog' = Logged(fbLog, out.fb)
            /\ ses' = [ses EXCEPT ![s] = Downloads(r, out)]
    /\ UNCHANGED <<program, files, nextTmp, runs, view, sm>>

\* ------------------------------------------------- the History tab (tab3)
FilterTypes == {"All", "Text File", "Image"}
FilterLanguages == {"All"} \cup Langs

\* limit(10)
PageSize == 10

\* comparison of two strings, character by character
RECURSIVE StrLess(_, _)
StrLess(a, b) ==
    IF a = <<>> THEN b # <<>>
    ELSE IF b = <<>> THEN FALSE
    ELSE IF a[1] # b[1] THEN a[1] < b[1]
    ELSE StrLess(Tail(a), Tail(b))

\* query.where(field, "==", value) over the documents ids of collection st
where(st, ids, field, value) == {i \in ids : st[i][field] = value}

\* mutant of Before: the direction is ascending
Before_ascending(st, i, j) ==
    \/ StrLess(st[i].timestamp, st[j].timestamp)
    \/ (st[i].timestamp = st[j].timestamp /\ i < j)

\* document i comes before document j under
\* order_by("timestamp", direction=DESCENDING); equal timestamps are ordered
\* by document name, in the same direction
Before(st, i, j) ==
    \/ StrLess(st[j].timestamp, st[i].timestamp)
    \/ (st[i].timestamp = st[j].timestamp /\ i > j)

order_by(st, ids) ==
    LET Pos(i) == Cardinality({j \in ids : j # i /\ Before(st, j, i)})
        byPos == {<<Pos(i), i>> : i \in ids}
    IN  [k \in 1..Cardinality(ids) |-> (CHOOSE p \in byPos : p[1] = k - 1)[2]]

limit(seq, n) == SubSeq(seq, 1, IF Len(seq) < n THEN Len(seq) ELSE n)

\* the query main() builds from the two select boxes, and its result
Query(st, filter_type, filter_language) ==
    LET translations_ref == DOMAIN st
        source_type == IF filter_type = "Text File" THEN "text_file" ELSE "image"
        query ==
            IF filter_type # "All" /\ filter_language # "All"
            THEN where(st, where(st, translations_ref, "source_type", source_type),
                       "target_language", filter_language)
            ELSE IF filter_type # "All"
            THEN where(st, translations_ref, "source_type", source_type)
            ELSE IF filter_language # "All"
            THEN where(st, translations_ref, "target_language", filter_language)
            ELSE translations_ref
    IN  limit(order_by(st, query), PageSize)

\* what one expander of the History tab shows of doc.to_dict()
Row(st, i) ==
    [id |-> i,
     source |-> IF st[i].source_type = "image" THEN "Image" ELSE "Text File",
     target_language |-> st[i].target_language,
     timestamp |-> st[i].timestamp,
     original_text |-> st[i].original_text,
     translated_text |-> st[i].translated_text,
     summary |-> st[i].summary]

\* tab3 of main(): the History tab is rendered with the chosen filters, at the
\* end of a script run that started no pipeline or has finished it
app_History(s) ==
    /\ program = "app" /\ ses[s].pc \in {"idle", "done"}
    /\ \E credOk \in InitOutcomes(fbCache), clientOk \in InitOutcomes(fbCache),
          queryOk \in BOOLEAN,
          filter_type \in FilterTypes, filter_language \in FilterLanguages :
        LET fb == initialize_firebase(fbCache, fbApps, credOk, clientOk)
        IN  /\ fbCache' = fb.cache
            /\ fbApps' = fb.apps
            /\ fbLog' = Logged(fbLog, fb)
            /\ IF fb.db # "client"
               THEN view' = [NoView EXCEPT !.status = "unavailable"]
               ELSE IF ~queryOk
               THEN view' = [NoView EXCEPT !.status = "error"]
               ELSE \E translations \in {Query(store, filter_type, filter_language)} :
                    view' = [status |-> "listed", filter_type |-> filter_type,
                             filter_language |-> filter_language,
                             snapshot |-> DOMAIN store,
                             rows |-> [k \in 1..Len(translations) |->
                                          Row(store, translations[k])]]
    /\ UNCHANGED <<program, ses, files, nextTmp, store, runs, sm>>

\* ----------------------------- src/attached_assets/translator.py: actions
\* summarize_text of translator.py: no blank check, no handler
tr_summarize_text(text, k, r) == JoinSpace(LsaSummarizer(text, k, r))

\* main() from the translation on, for the text it was given
tr_Process(r, is_image, text, selected_language, translateOk, sumOk, rt) ==
    LET lang_code == language_map[selected_language]
        translated_text == Translate(text, lang_code)
        base == [r EXCEPT !.source_is_image = is_image, !.text = text,
                          !.selected_language = selected_language,
                          !.shown = IF is_image THEN {"extracted"} ELSE {}]
    IN  IF ~translateOk
        THEN [base EXCEPT !.pc = "crashed", !.stages = Append(@, "translate")]
        ELSE IF ~sumOk
        THEN [base EXCEPT !.pc = "crashed", !.translated_text = translated_text,
                          !.shown = @ \cup {"translated"},
                          !.stages = Append(@, "translate") \o <<"summarize">>]
        ELSE [base EXCEPT !.pc = "tts", !.translated_text = translated_text,
                          !.summary = tr_summarize_text(translated_text, SentencesCount, rt),
                          !.shown = @ \cup {"translated", "summary"},
                          !.stages = Append(@, "translate") \o <<"summarize">>]

\* main(), if uploaded_file
tr_Text(s) ==
    /\ program = "translator" /\ ses[s].pc = "idle"
    /\ runs' = runs + 1
    /\ \E decodeOk \in BOOLEAN, file_contents \in InputTexts, lang \in Langs,
          translateOk \in BOOLEAN, sumOk \in BOOLEAN :
        \E rt \in Ratings(Translate(file_contents, language_map[lang])) :
            ses' = [ses EXCEPT ![s] =
                IF ~decodeOk THEN [@ EXCEPT !.pc = "crashed"]
                ELSE tr_Process(@, FALSE, file_contents, lang, translateOk, sumOk, rt)]
    /\ UNCHANGED <<program, files, nextTmp, store, fbCache, fbApps, fbLog, view, sm>>

\* main(), elif uploaded_image
tr_Image(s) ==
    /\ program = "translator" /\ ses[s].pc = "idle"
    /\ runs' = runs + 1
    /\ \E openOk \in BOOLEAN, ocrOk \in BOOLEAN, extracted_text \in InputTexts,
          lang \in Langs, translateOk \in BOOLEAN, sumOk \in BOOLEAN :
        \E rt \in Ratings(Translate(extracted_text, language_map[lang])) :
            ses' = [ses EXCEPT ![s] =
                IF ~openOk THEN [@ EXCEPT !.pc = "crashed", !.source_is_image = TRUE]
                ELSE IF ~ocrOk
                THEN [@ EXCEPT !.pc = "crashed", !.source_is_image = TRUE,
                               !.stages = <<"ocr">>, !.raw = OcrRaised]
                ELSE IF ~IsBlank(extracted_text)
                THEN tr_Process([@ EXCEPT !.stages = <<"ocr">>, !.raw = extracted_text],
                                TRUE, extracted_text, lang, translateOk, sumOk, rt)
                ELSE [@ EXCEPT !.pc = "done", !.source_is_image = TRUE,
                               !.stages = <<"ocr">>, !.raw = extracted_text,
                               !.msgs = {"No text detected in the image."}]]
    /\ UNCHANGED <<program, files, nextTmp, store, fbCache, fbApps, fbLog, view, sm>>

\* text_to_speech of translator.py, called by main(): gTTS refuses an empty
\* text; a failed save may already have truncated the file
tr_Speech(s) ==
    /\ program = "translator" /\ ses[s].pc = "tts"
    /\ \E ttsOk \in BOOLEAN, truncated \in BOOLEAN :
        LET r == ses[s]
        IN  IF ttsOk /\ ~IsBlank(r.summary)
            THEN /\ files' = Put(files, FixedPath,
                                 Synth(r.summary, language_map[r.selected_language]))
                 /\ ses' = [ses EXCEPT ![s] =
                      [@ EXCEPT !.pc = "play", !.audio_path = FixedPath,
                                !.created = {FixedPath}, !.stages = Append(@, "tts")]]
            ELSE /\ files' = IF truncated /\ ~IsBlank(r.summary)
                             THEN Put(files, FixedPath, EmptyFile) ELSE files
                 /\ ses' = [ses EXCEPT ![s] =
                      [@ EXCEPT !.pc = "crashed", !.stages = Append(@, "tts"),
                                !.created = IF truncated /\ ~IsBlank(r.summary)
                                            THEN {FixedPath} ELSE {}]]
    /\ UNCHANGED <<program, nextTmp, store, fbCache, fbApps, fbLog, runs, view, sm>>

\* main(): open(audio_path, "rb"), st.audio, then the download buttons
tr_Playback(s) ==
    /\ program = "translator" /\ ses[s].pc = "play"
    /\ \E openOk \in BOOLEAN :
        ses' = [ses EXCEPT ![s] =
            IF openOk /\ FixedPath \in DOMAIN files
            THEN [@ EXCEPT !.pc = "done", !.audio_bytes = files[FixedPath],
                           !.stages = Append(@, "playback") \o <<"download">>,
                           !.shown = @ \cup {"audio", "dl_translated", "dl_summary"} \cup
                               (IF ses[s].source_is_image THEN {"dl_extracted"} ELSE {})]
            ELSE [@ EXCEPT !.pc = "crashed", !.stages = Append(@, "playback")]]
    /\ UNCHANGED <<program, files, nextTmp, store, fbCache, fbApps, fbLog, runs, view, sm>>

AppStep(s) ==
    \/ app_UploadText(s)
    \/ app_UploadImage(s)
    \/ app_Translate(s)
    \/ app_Speech(s)
    \/ app_Playback(s)
    \/ app_Save(s)

TrStep(s) ==
    \/ tr_Text(s)
    \/ tr_Image(s)
    \/ tr_Speech(s)
    \/ tr_Playback(s)

\* Spec: the server runs one of the two scripts for concurrent sessions
Next == \E s \in Sessions : AppStep(s) \/ TrStep(s)

Spec == Init /\ [][Next]_vars

\* ------------------------------------------------------------- SpecHistory
\* One user of app.py in front of a collection that earlier runs have filled:
\* BaseDocs documents saved at successive clock readings, alternating between
\* two kinds of run.
BaseDocs == 11

BaseTime(i) == [sec |-> i % (MaxSec + 1), micro |-> (i \div (MaxSec + 1)) % (MaxMicro + 1)]

BaseRun(is_image, lang) ==
    LET text == <<"a", ".">>
        translated == Translate(text, language_map[lang])
    IN  [IdleSession EXCEPT !.source_is_image = is_image, !.text = text,
                            !.selected_language = lang,
                            !.translated_text = translated,
                            !.summary = translated,
                            !.audio_path = TmpPath(0)]

InitHistory ==
    /\ program = "app"
    /\ ses = [s \in Sessions |-> IdleSession]
    /\ files = <<>>
    /\ nextTmp = 0
    /\ \E odd \in BOOLEAN \X Langs, even \in BOOLEAN \X Langs :
         store = [i \in 1..BaseDocs |->
                     LET kind == IF i % 2 = 1 THEN odd ELSE even
                     IN  [firebase_data(BaseRun(kind[1], kind[2]))
                             EXCEPT !.timestamp = IsoFormat(BaseTime(i))]]
    /\ fbCache = "unset"
    /\ fbApps = FALSE
    /\ fbLog = NoLog
    /\ runs = 0
    /\ view = NoView
    /\ sm = NoHarness

NextHistory == AppStep("u1") \/ app_History("u1")

SpecHistory == InitHistory /\ [][NextHistory]_vars

\* ---------------------------------------------------------------- SpecSumm
\* summarize_text of src/app.py applied to every short text, and then to its
\* own output with the same sentences_count.
Texts == UNION {[1..n -> Chars] : n \in 0..MaxLen}

InitSumm ==
    /\ program = "app"
    /\ ses = [s \in Sessions |-> IdleSession]
    /\ files = <<>>
    /\ nextTmp = 0
    /\ store = <<>>
    /\ fbCache = "unset"
    /\ fbApps = FALSE
    /\ fbLog = NoLog
    /\ runs = 0
    /\ view = NoView
    /\ \E text \in Texts, k \in 1..MaxK :
         sm = [pc |-> "input", text |-> text, k |-> k, out |-> <<>>, failed |-> FALSE,
               out2 |-> <<>>, failed2 |-> FALSE]

Summarize ==
    /\ sm.pc = "input"
    /\ \E r \in Ratings(sm.text), fails \in BOOLEAN :
         sm' = [sm EXCEPT !.pc = "once",
                          !.out = summarize_text(sm.text, sm.k, r, fails),
                          !.failed = fails /\ ~IsBlank(sm.text)]
    /\ UNCHANGED <<program, ses, files, nextTmp, store, fbCache, fbApps, fbLog, runs, view>>

Resummarize ==
    /\ sm.pc = "once"
    /\ \E r \in Ratings(sm.out), fails \in BOOLEAN :
         sm' = [sm EXCEPT !.pc = "twice",
                          !.out2 = summarize_text(sm.out, sm.k, r, fails),
                          !.failed2 = fails /\ ~IsBlank(sm.out)]
    /\ UNCHANGED <<program, ses, files, nextTmp, store, fbCache, fbApps, fbLog, runs, view>>

NextSumm == Summarize \/ Resummarize

SpecSumm == InitSumm /\ [][NextSumm]_vars

\* =================================================================== claims
InSeq(x, q) == \E i \in 1..Len(q) : q[i] = x

LaterSurfaces == {"translated", "summary", "audio", "dl_translated", "dl_summary",
                  "dl_extracted"}

\* C1: when OCR returns only whitespace, app.py's extract_text_from_image has
\* returned "No text detected in the image." (shown as the warning) and the run
\* is over with OCR as its only stage: nothing of translation, summary, audio
\* or download is shown, and no stored image record has a blank or sentinel
\* original text.
C1_BlankOcrHalts ==
    /\ \A s \in Sessions :
        LET r == ses[s]
        IN  IsBlank(r.raw) =>
              /\ program = "app" => r.text = NoTextDetected /\ NoTextDetected[1] \in r.msgs
              /\ r.pc = "done"
              /\ r.stages = <<"ocr">>
              /\ r.shown \cap LaterSurfaces = {}
    /\ \A i \in DOMAIN store :
        store[i].source_type = "image" =>
            ~IsBlank(store[i].original_text) /\ store[i].original_text # NoTextDetected

C1_Witness ==
    \E s \in Sessions : program = "app" /\ IsBlank(ses[s].raw) /\ ses[s].pc = "done"

\* C2: in app.py, a run whose summary is the sentinel "No text to summarize."
\* never invokes speech synthesis or the store write, and no stored record
\* carries the sentinel as its summary.
C2_SentinelShortCircuits ==
    /\ \A s \in Sessions :
        (program = "app" /\ ses[s].summary = NoTextToSummarize) =>
            ~InSeq("tts", ses[s].stages) /\ ~InSeq("save", ses[s].stages)
    /\ \A i \in DOMAIN store : store[i].summary # NoTextToSummarize

\* C3: no run, of either script, ends in an unhandled exception.
C3_NoUnhandledException == \A s \in Sessions : ses[s].pc # "crashed"

\* the run got through text_to_speech and, if it returned a path, the playback
AudioStepDone(r) ==
    InSeq("tts", r.stages) /\ (r.audio_path # None => "audio" \in r.shown)

StoreOutcomes == {"Firebase connection not available. Data will not be saved.",
                  "Firebase save error",
                  "Data saved to Firebase successfully!"}

\* C4: in app.py, every finished run whose translation, summary and audio step
\* completed shows the translated text, the summary and the download buttons,
\* with exactly one of the three store outcomes reported: the unavailable
\* warning, the save error, or the success note.
C4_SaveNeverBlocksDisplay ==
    \A s \in Sessions :
        LET r == ses[s]
        IN  (program = "app" /\ r.pc = "done" /\ AudioStepDone(r)) =>
              /\ {"translated", "summary", "dl_translated", "dl_summary"} \subseteq r.shown
              /\ r.source_is_image => "dl_extracted" \in r.shown
              /\ Cardinality(r.msgs \cap StoreOutcomes) = 1

C4_Witness ==
    \E s \in Sessions :
        /\ program = "app" /\ ses[s].pc = "done" /\ AudioStepDone(ses[s])
        /\ "Firebase save error" \in ses[s].msgs
        /\ "dl_summary" \in ses[s].shown

\* what a step that changes the store must look like
C5_Step ==
    store' # store =>
        \E s \in Sessions : \E id \in DOMAIN store' \ DOMAIN store :
            LET r == ses[s]
                d == store'[id]
            IN  /\ DOMAIN store' = DOMAIN store \cup {id}
                /\ \A i \in DOMAIN store : store'[i] = store[i]
                /\ r.pc = "save" /\ ses'[s].pc = "done"
                /\ InSeq("translate", r.stages) /\ "translated" \in r.shown
                /\ d.original_text = r.text
                /\ d.translated_text = r.translated_text
                /\ d.summary = r.summary
                /\ d.target_language = r.selected_language
                /\ d.source_type = (IF InSeq("ocr", r.stages) THEN "image" ELSE "text_file")
                /\ d.target_language_code = language_map[d.target_language]
                /\ d.has_audio <=>
                      (r.audio_bytes = Synth(r.summary, language_map[r.selected_language]))
                /\ Cardinality(DOMAIN store') <= runs'

\* C5: every step that changes the store adds exactly one document, written
\* by a session leaving its save step after a successful translation; the
\* document carries that run's texts, source_type "image" exactly when the
\* run went through OCR, the catalog code of its target language, and
\* has_audio exactly when the run played the audio synthesized from its own
\* summary. The store never holds more documents than runs were started.
C5_RecordDescribesRun == [][C5_Step]_vars

C5_Witness ==
    \E i \in DOMAIN store, j \in DOMAIN store :
        /\ store[i].source_type = "image" /\ ~store[i].has_audio
        /\ store[j].source_type = "text_file" /\ store[j].has_audio

\* a History row shows the fields of the document it names
RowFaithful(row) ==
    /\ row.id \in DOMAIN store
    /\ row.original_text = store[row.id].original_text
    /\ row.translated_text = store[row.id].translated_text
    /\ row.summary = store[row.id].summary

C6_ViewFaithful ==
    view.status = "listed" => \A k \in 1..Len(view.rows) : RowFaithful(view.rows[k])

C6_Kept == \A i \in DOMAIN store : i \in DOMAIN store' /\ store'[i] = store[i]

\* C6: no step removes or changes a stored document, and every row of a
\* History listing shows the original_text, translated_text and summary of the
\* document it was read from.
C6_RecordsImmutable == [](C6_ViewFaithful) /\ [][C6_Kept]_vars

C6_Witness ==
    /\ view.status = "listed"
    /\ Cardinality(DOMAIN store) > BaseDocs
    /\ \E k \in 1..Len(view.rows) : view.rows[k].id > BaseDocs

\* the clock reading a stored timestamp string denotes, in microseconds
TimeOf(ts) == ts[1] * (MaxMicro + 1) + (IF Len(ts) > 1 THEN ts[2] ELSE 0)

Matching(filter_type, filter_language, ids) ==
    {i \in ids :
        /\ filter_type = "Text File" => store[i].source_type = "text_file"
        /\ filter_type = "Image" => store[i].source_type = "image"
        /\ filter_language # "All" => store[i].target_language = filter_language}

\* C7: a History listing holds exactly the documents that satisfy the selected
\* equality filters ("Text File" is source_type text_file, "Image" is image,
\* "All" selects everything), latest clock reading first, cut to the PageSize
\* latest.
C7_HistoryListing ==
    view.status = "listed" =>
        LET rows == view.rows
            listed == {rows[k].id : k \in 1..Len(rows)}
            matching == Matching(view.filter_type, view.filter_language, view.snapshot)
        IN  /\ listed \subseteq matching
            /\ Cardinality(listed) = Len(rows)
            /\ Len(rows) = (IF Cardinality(matching) < PageSize
                            THEN Cardinality(matching) ELSE PageSize)
            /\ \A k \in 1..(Len(rows) - 1) :
                  TimeOf(rows[k].timestamp) >= TimeOf(rows[k + 1].timestamp)
            /\ \A i \in matching \ listed : \A j \in listed :
                  TimeOf(store[i].timestamp) <= TimeOf(store[j].timestamp)

C7_Witness ==
    /\ view.status = "listed"
    /\ view.filter_type = "Image" /\ view.filter_language # "All"
    /\ Cardinality(Matching(view.filter_type, view.filter_language, view.snapshot)) > PageSize
    /\ Cardinality(Matching(view.filter_type, view.filter_language, view.snapshot))
           < Cardinality(view.snapshot)
    /\ \E k \in 1..(Len(view.rows) - 1) :
          view.rows[k].timestamp # view.rows[k + 1].timestamp

\* C8: in app.py, when a run is over and os.remove did not fail, none of the
\* temporary audio files its speech synthesis created is left.
C8_NoTempFileLeft ==
    \A s \in Sessions :
        (program = "app" /\ ses[s].pc = "done" /\ ses[s].removed # "failed") =>
            ses[s].created \cap DOMAIN files = {}

\* C9: the audio a run plays back is the audio synthesized from its own
\* summary in its own target language.
C9_OwnAudio ==
    \A s \in Sessions :
        ses[s].audio_bytes # NoAudio =>
            ses[s].audio_bytes =
                Synth(ses[s].summary, language_map[ses[s].selected_language])

Min(a, b) == IF a < b THEN a ELSE b

\* C10: summarize_text(text, k) on non-blank text, when the summarizer does not
\* raise, returns min(k, n) of the n extractable sentences joined by single
\* spaces in document order, or the "Couldn't generate summary" sentinel when
\* that is none; when 1 <= n <= k the result is all sentences, and summarizing
\* it again with the same k returns it unchanged.
C10_Summary ==
    (sm.pc \in {"once", "twice"} /\ ~IsBlank(sm.text) /\ ~sm.failed) =>
        LET sents == Extractable(sm.text)
            n == Len(sents)
            m == Min(sm.k, n)
        IN  /\ m = 0 => sm.out = CouldntGenerate
            /\ m > 0 =>
                 \E sel \in SUBSET (1..n) :
                    /\ Cardinality(sel) = m
                    /\ sm.out = JoinSpace(PickInOrder(sents, sel, 1))
            /\ (n >= 1 /\ n <= sm.k) => sm.out = JoinSpace(sents)
            /\ (sm.pc = "twice" /\ ~sm.failed2 /\ n >= 1 /\ n <= sm.k) => sm.out2 = sm.out

C10_Witness ==
    /\ sm.pc = "twice" /\ ~sm.failed /\ ~sm.failed2
    /\ Len(Extractable(sm.text)) = 2 /\ sm.k = 2
    /\ sm.out2 = sm.out /\ sm.out # sm.text

\* what the calls made so far add up to
C11_Once ==
    /\ fbLog.creds <= 1
    /\ fbLog.inits <= 1
    /\ Cardinality(fbLog.results) <= 1
    /\ fbLog.results # {} => (fbCache # "unset" /\ fbLog.results = {fbCache})
    /\ fbLog.inits = 1 <=> fbApps

\* a step taken once the client is resolved
C11_Reused ==
    fbCache # "unset" =>
        /\ fbCache' = fbCache
        /\ fbApps' = fbApps
        /\ fbLog' = fbLog

\* C11: over the saves and History views of one process the credentials are
\* read at most once and the Firebase app is initialized at most once; every
\* call of initialize_firebase has returned the one cached result, the null
\* client of a failed first initialization included; and once the result is
\* cached no step reads the credentials, initializes the app or changes the
\* result again.
C11_ClientResolvedOnce == [](C11_Once) /\ [][C11_Reused]_vars

\* a save and a History view were both answered with the null client of one
\* failed initialization
C11_Witness ==
    /\ fbLog = [creds |-> 1, inits |-> 0, results |-> {"null"}]
    /\ view.status = "unavailable"
    /\ \E s \in Sessions :
          /\ ses[s].pc = "done"
          /\ "Firebase connection not available. Data will not be saved." \in ses[s].msgs

\* the place of a stage in process_text
StageRank(x) ==
    CASE x = "ocr" -> 0 [] x = "translate" -> 1 [] x = "summarize" -> 2
      [] x = "tts" -> 3 [] x = "playback" -> 4 [] x = "save" -> 5
      [] x = "download" -> 6

AfterTranslation == {"summarize", "tts", "playback", "save", "download"}

\* the stages a run has invoked so far
C12_Forward ==
    \A s \in Sessions :
        LET r == ses[s]
            q == r.stages
        IN  /\ \A i \in 1..(Len(q) - 1) : StageRank(q[i]) < StageRank(q[i + 1])
            /\ (\E i \in 1..Len(q) : q[i] \in AfterTranslation) =>
                  /\ InSeq("translate", q)
                  /\ "translated" \in r.shown
                  /\ r.translated_text = Translate(r.text, language_map[r.selected_language])
            /\ (program = "app" /\ InSeq("translate", q) /\ "translated" \notin r.shown) =>
                  /\ r.pc = "done"
                  /\ "Error during processing" \in r.msgs
                  /\ q[Len(q)] = "translate"
                  /\ r.shown \cap LaterSurfaces = {}

\* no step takes back or repeats what a run has invoked
C12_Appended ==
    /\ \A s \in Sessions :
        /\ Len(ses'[s].stages) >= Len(ses[s].stages)
        /\ SubSeq(ses'[s].stages, 1, Len(ses[s].stages)) = ses[s].stages
    /\ store' # store =>
        \E s \in Sessions :
            ~InSeq("save", ses[s].stages) /\ InSeq("save", ses'[s].stages)

\* C12: the stages a run invokes are each invoked at most once and in the
\* order translation, summarization, speech synthesis, playback, store write,
\* download display; a stage after translation is invoked only when the
\* translation has returned and is shown; in app.py a translation that raised
\* leaves the run over with "Error during processing" reported, translation
\* its last stage and none of the later surfaces shown. No step removes a
\* stage from a run's record, and every step that writes the store is the
\* store write of a run that had made none before.
C12_ForwardNoRetry == [](C12_Forward) /\ [][C12_Appended]_vars

\* one run went through every stage while the other's translation failed
C12_Witness ==
    /\ program = "app"
    /\ \E s \in Sessions :
          ses[s].stages = <<"ocr", "translate", "summarize", "tts", "playback",
                            "save", "download">>
    /\ \E s \in Sessions :
          /\ ses[s].stages = <<"translate">>
          /\ ses[s].pc = "done"
          /\ "Error during processing" \in ses[s].msgs

====
